---- MODULE Spec2Model ----
(***************************************************************************)
(* Dragonfly: Sentinel-2 NBR / dNBR burn-severity toolkit.                 *)
(*                                                                         *)
(* processing.py  - calculate_nbr, calculate_dnbr, classify_dnbr,          *)
(*                  normalize_for_overlay, colorize                        *)
(* viz.py         - raster_overlay                                         *)
(* data_access.py - SentinelStacConnector                                  *)
(* pipeline.py    - NBRPipeline                                            *)
(*                                                                         *)
(* Floating point values are modelled as exact rationals extended with     *)
(* NaN, +Inf and -Inf, with the IEEE-754 rules for the special values.     *)
(* Rounding and overflow of finite values are not modelled, nor is the     *)
(* sign of zero.                                                           *)
(***************************************************************************)
EXTENDS Integers, Sequences, FiniteSets, TLC

(***************************************************************************)
(* IEEE-754 values                                                         *)
(***************************************************************************)
RECURSIVE GCD(_, _)
GCD(a, b) == IF b = 0 THEN a ELSE GCD(b, a % b)

Abs(i) == IF i < 0 THEN -i ELSE i

NaN == [k |-> "nan", n |-> 0, d |-> 1]
PInf == [k |-> "pinf", n |-> 0, d |-> 1]
NInf == [k |-> "ninf", n |-> 0, d |-> 1]

\* the rational n/d (d # 0) in lowest terms with a positive denominator
R(n, d) ==
    LET g == GCD(Abs(n), Abs(d))
        s == IF d < 0 THEN -1 ELSE 1
    IN  [k |-> "fin", n |-> (s * n) \div g, d |-> (s * d) \div g]

Milli(m) == R(m, 1000)

isnan(v) == v.k = "nan"
isfinite(v) == v.k = "fin"
isinf(v) == v.k \in {"pinf", "ninf"}

\* -1, 0, 1 for a value that is not NaN
Sign(v) ==
    CASE v.k = "pinf" -> 1
      [] v.k = "ninf" -> -1
      [] OTHER -> IF v.n > 0 THEN 1 ELSE IF v.n < 0 THEN -1 ELSE 0

FNeg(v) ==
    CASE v.k = "nan" -> NaN
      [] v.k = "pinf" -> NInf
      [] v.k = "ninf" -> PInf
      [] OTHER -> R(-v.n, v.d)

FAdd(a, b) ==
    CASE isnan(a) \/ isnan(b) -> NaN
      [] isinf(a) /\ isinf(b) -> IF a.k = b.k THEN a ELSE NaN
      [] isinf(a) -> a
      [] isinf(b) -> b
      [] OTHER -> R(a.n * b.d + b.n * a.d, a.d * b.d)

FSub(a, b) == FAdd(a, FNeg(b))

\* np.true_divide under errstate(divide="ignore", invalid="ignore")
FDiv(a, b) ==
    CASE isnan(a) \/ isnan(b) -> NaN
      [] isinf(a) /\ isinf(b) -> NaN
      [] isinf(a) -> IF Sign(a) * (IF Sign(b) < 0 THEN -1 ELSE 1) > 0 THEN PInf ELSE NInf
      [] isinf(b) -> R(0, 1)
      [] b.n = 0 -> IF a.n = 0 THEN NaN ELSE IF a.n > 0 THEN PInf ELSE NInf
      [] OTHER -> R(a.n * b.d, a.d * b.n)

\* comparisons: every comparison with NaN is false
FLt(a, b) ==
    CASE isnan(a) \/ isnan(b) -> FALSE
      [] a.k = "pinf" -> FALSE
      [] b.k = "ninf" -> FALSE
      [] a.k = "ninf" -> TRUE
      [] b.k = "pinf" -> TRUE
      [] OTHER -> a.n * b.d < b.n * a.d

FEq(a, b) == ~isnan(a) /\ ~isnan(b) /\ a = b
FLe(a, b) == FLt(a, b) \/ FEq(a, b)
FGt(a, b) == FLt(b, a)
FGe(a, b) == FLe(b, a)

(***************************************************************************)
(* numpy arrays: a 2-D shape and one value per pixel                       *)
(***************************************************************************)
Pixels(shape) == (1 .. shape[1]) \X (1 .. shape[2])

\* numpy broadcasting of two 2-D shapes
DimOK(m, n) == m = n \/ m = 1 \/ n = 1
Broadcastable(s, t) == DimOK(s[1], t[1]) /\ DimOK(s[2], t[2])
Max(m, n) == IF m > n THEN m ELSE n
BroadcastShape(s, t) == <<Max(s[1], t[1]), Max(s[2], t[2])>>
\* the pixel of an array of shape s that pixel p of the broadcast result reads
BIdx(s, p) == <<IF s[1] = 1 THEN 1 ELSE p[1], IF s[2] = 1 THEN 1 ELSE p[2]>>

\* the elementwise numpy operators a - b, a + b and np.true_divide(a, b) on two
\* broadcastable arrays
ArraySub(a, b) ==
    LET s == BroadcastShape(a.shape, b.shape)
    IN  [shape |-> s,
         px |-> [p \in Pixels(s) |-> FSub(a.px[BIdx(a.shape, p)], b.px[BIdx(b.shape, p)])]]

ArrayAdd(a, b) ==
    LET s == BroadcastShape(a.shape, b.shape)
    IN  [shape |-> s,
         px |-> [p \in Pixels(s) |-> FAdd(a.px[BIdx(a.shape, p)], b.px[BIdx(b.shape, p)])]]

ArrayDiv(a, b) ==
    LET s == BroadcastShape(a.shape, b.shape)
    IN  [shape |-> s,
         px |-> [p \in Pixels(s) |-> FDiv(a.px[BIdx(a.shape, p)], b.px[BIdx(b.shape, p)])]]

(***************************************************************************)
(* processing.py                                                           *)
(***************************************************************************)
BurnSeverityClass(name, dnbr_min, dnbr_max, color) ==
    [name |-> name, dnbr_min |-> dnbr_min, dnbr_max |-> dnbr_max, color |-> color]

BURN_SEVERITY_CLASSES ==
    << BurnSeverityClass("Enhanced Regrowth", Milli(-500), Milli(-250), <<26, 152, 80>>),
       BurnSeverityClass("High Regrowth", Milli(-250), Milli(-100), <<102, 189, 99>>),
       BurnSeverityClass("Unburned", Milli(-100), Milli(100), <<255, 255, 190>>),
       BurnSeverityClass("Low Severity", Milli(100), Milli(270), <<253, 174, 97>>),
       BurnSeverityClass("Moderate Severity", Milli(270), Milli(660), <<244, 109, 67>>),
       BurnSeverityClass("High Severity", Milli(660), Milli(1300), <<215, 48, 39>>) >>

\* result[~np.isfinite(result)] = np.nan
MutKeepInf(v) == IF isnan(v) THEN NaN ELSE v

NonFiniteToNaN(v) == IF isfinite(v) THEN v ELSE NaN

_safe_divide(numerator, denominator) ==
    LET result == ArrayDiv(numerator, denominator)
    IN  [shape |-> result.shape,
         px |-> [p \in Pixels(result.shape) |-> NonFiniteToNaN(result.px[p])]]

calculate_nbr(nir, swir) ==
    _safe_divide(ArraySub(nir, swir), ArrayAdd(nir, swir))

\* numpy raises ValueError when the operand shapes cannot be broadcast together
raises_ValueError(a, b) == ~Broadcastable(a.shape, b.shape)

\* the difference taken the other way round
MutDnbrReversed(pre_fire_nbr, post_fire_nbr) == ArraySub(post_fire_nbr, pre_fire_nbr)

calculate_dnbr(pre_fire_nbr, post_fire_nbr) == ArraySub(pre_fire_nbr, post_fire_nbr)

\* mask = (dnbr >= severity.dnbr_min) & (dnbr < severity.dnbr_max), at one pixel
MutBandMask(v, severity) == FGt(v, severity.dnbr_min) /\ FLe(v, severity.dnbr_max)

BandMask(v, severity) == FGe(v, severity.dnbr_min) /\ FLt(v, severity.dnbr_max)

\* the loop "for idx, severity in enumerate(classes): class_raster[mask] = idx" at
\* one pixel: i is the 1-based position in classes, cur the pixel's value so far
RECURSIVE MutFirstMatch(_, _, _, _)
MutFirstMatch(v, classes, i, cur) ==
    IF i > Len(classes) THEN cur
    ELSE IF BandMask(v, classes[i]) THEN i - 1
    ELSE MutFirstMatch(v, classes, i + 1, cur)

RECURSIVE ClassifyLoop(_, _, _, _)
ClassifyLoop(v, classes, i, cur) ==
    IF i > Len(classes) THEN cur
    ELSE ClassifyLoop(v, classes, i + 1, IF BandMask(v, classes[i]) THEN i - 1 ELSE cur)

NoClass == 255

\* classify_dnbr reads the module-level list BURN_SEVERITY_CLASSES; the list is a
\* parameter here so that other configurations of it can be examined
classify_with(dnbr, classes) ==
    [shape |-> dnbr.shape,
     px |-> [p \in Pixels(dnbr.shape) |-> ClassifyLoop(dnbr.px[p], classes, 1, NoClass)]]

classify_dnbr(dnbr) == classify_with(dnbr, BURN_SEVERITY_CLASSES)

\* np.clip(v, lo, hi) = minimum(maximum(v, lo), hi); NaN propagates
FMaximum(a, b) == IF isnan(a) \/ isnan(b) THEN NaN ELSE IF FLt(a, b) THEN b ELSE a
FMinimum(a, b) == IF isnan(a) \/ isnan(b) THEN NaN ELSE IF FLt(b, a) THEN b ELSE a
MutNoClip(v, lo, hi) == v
clip(v, lo, hi) == FMinimum(FMaximum(v, lo), hi)

\* np.nan_to_num(x, nan=0.0, posinf=1.0, neginf=0.0)
nan_to_num(v) ==
    CASE v.k = "nan" -> R(0, 1)
      [] v.k = "pinf" -> R(1, 1)
      [] v.k = "ninf" -> R(0, 1)
      [] OTHER -> v

normalize_pixel(v, min_val, max_val) ==
    nan_to_num(FDiv(FSub(clip(v, min_val, max_val), min_val), FSub(max_val, min_val)))

normalize_for_overlay(array, min_val, max_val) ==
    [shape |-> array.shape,
     px |-> [p \in Pixels(array.shape) |-> normalize_pixel(array.px[p], min_val, max_val)]]

DEFAULT_DNBR_COLORMAP ==
    << <<R(0, 1), <<26, 152, 80>> >>,
       <<R(1, 5), <<102, 189, 99>> >>,
       <<R(7, 20), <<255, 255, 190>> >>,
       <<R(11, 20), <<253, 174, 97>> >>,
       <<R(4, 5), <<244, 109, 67>> >>,
       <<R(1, 1), <<215, 48, 39>> >> >>

\* np.searchsorted(stops, v, side="right"): the number of stops <= v; NaN sorts
\* after every stop
searchsorted_right(colormap, v) ==
    IF isnan(v) THEN Len(colormap)
    ELSE Cardinality({i \in 1 .. Len(colormap) : FLe(colormap[i][1], v)})

\* np.clip(indices, 1, len(stops) - 1)
clip_index(i, n) == IF i < 1 THEN 1 ELSE IF i > n - 1 THEN n - 1 ELSE i

\* rgba[:, 3] = (values_flat > 0).astype(np.uint8) * 180
MutAlphaGe(v) == IF FGe(v, R(0, 1)) THEN 180 ELSE 0

alpha_of(v) == IF FGt(v, R(0, 1)) THEN 180 ELSE 0

\* np.clip(x, 0, 255).astype(np.uint8) of a finite x = n/d, d > 0: the cast drops
\* the fraction
astype_uint8(x) == IF x.n < 0 THEN 0 ELSE IF x.n > 255 * x.d THEN 255 ELSE x.n \div x.d

\* an interpolation that starts from the colour of the upper stop
MutInterpolateFromHigh(low, high, t, w) ==
    CASE isnan(t) -> 0 .. 255
      [] isinf(t) -> IF high = low THEN 0 .. 255
                     ELSE IF Sign(t) * (high - low) > 0 THEN {255} ELSE {0}
      [] OTHER -> {astype_uint8(FAdd(R(high, 1), R((high - low) * t.n * w.d, t.d * w.n)))}

\* One colour channel of one pixel, as the set of the bytes the build can produce:
\*   weight = (values_flat - lower) / (upper - lower + 1e-12)
\*   interpolated = low_colors + (high_colors - low_colors) * weight
\*   np.clip(interpolated, 0, 255).astype(np.uint8)
\* with t = values_flat - lower, w = upper - lower and low, high the channel of the
\* two stops.  1e-12 is far below the resolution of the values examined: it is
\* modelled by what it does to the result, which is to pull the product
\* (high - low) * weight towards zero by less than any difference between two
\* values, so that a product that would be a positive whole number is cast to the
\* byte below (for w = 0 the quotient is beyond every byte unless it is zero).
\* The cast of NaN to uint8 is undefined: any byte.
interpolate(low, high, t, w) ==
    CASE isnan(t) -> 0 .. 255
      [] isinf(t) -> IF high = low THEN 0 .. 255
                     ELSE IF Sign(t) * (high - low) > 0 THEN {255} ELSE {0}
      [] w.n = 0 -> IF Sign(t) * (high - low) > 0 THEN {255}
                    ELSE IF Sign(t) * (high - low) < 0 THEN {0} ELSE {low}
      [] OTHER ->
            LET product == R((high - low) * t.n * w.d, t.d * w.n)
                exact == FAdd(R(low, 1), product)
            IN  IF product.n > 0 /\ exact.d = 1 /\ exact.n <= 255
                THEN {astype_uint8(exact) - 1}
                ELSE {astype_uint8(exact)}

\* colorize, per pixel: the (0-based) index of the upper bracketing stop, the
\* bytes each of the three colour channels can take, and the alpha channel
colorize(values, colormap) ==
    [shape |-> values.shape,
     px |-> [p \in Pixels(values.shape) |->
                LET v == values.px[p]
                    index == clip_index(searchsorted_right(colormap, v), Len(colormap))
                    lower == colormap[index]
                    upper == colormap[index + 1]
                IN  [index |-> index,
                     rgb |-> [c \in 1 .. 3 |->
                                interpolate(lower[2][c], upper[2][c],
                                            FSub(v, lower[1]), FSub(upper[1], lower[1]))],
                     alpha |-> alpha_of(v)]]]

(***************************************************************************)
(* viz.py                                                                  *)
(***************************************************************************)
\* raster_overlay up to the RGBA image handed to folium
raster_overlay(array, colormap) ==
    colorize(normalize_for_overlay(array, R(-1, 1), R(1, 1)), colormap)

(***************************************************************************)
(* The functions of processing.py and viz.py applied to input rasters.     *)
(*   fnA, fnB      the input arrays                                        *)
(*   fnOp          the function applied last ("none" before the first)     *)
(*   fnBands       the band list classify ran with                         *)
(*   fnMin, fnMax  min_val, max_val of normalize_for_overlay               *)
(*   fnOut         the array returned                                      *)
(*   fnErr         the exception raised, "" if none                        *)
(*   fnRamp        the colormap colorize ran with                          *)
(*   fnHist        the function applied before fnOp, and fnA and fnB as    *)
(*                 they were before the first call; recorded only in the   *)
(*                 runs that follow the order of calls (OrderSpec)         *)
(***************************************************************************)
VARIABLES fnOp, fnA, fnB, fnBands, fnMin, fnMax, fnOut, fnErr, fnRamp, fnHist

fnVars == <<fnOp, fnA, fnB, fnBands, fnMin, fnMax, fnOut, fnErr, fnRamp, fnHist>>

\* the variables of a pipeline run (described with the pipeline below)
VARIABLES
    pc,                \* the stage about to run, "Done" or "Failed"
    log,               \* the stages run so far, in order
    error,             \* [stage, exc, band, item_id] of the exception that ended the run
    apply_cloud_mask,  \* argument of download_and_prepare
    bands,             \* argument of download_and_prepare
    item,              \* pre_item, post_item
    paths,             \* pre_paths, post_paths: the bands downloaded
    files,             \* the content of the downloaded files that were opened
    nir, swir,         \* pre_nir, post_nir, pre_swir, post_swir
    mask,              \* pre_mask, post_mask
    resampled,         \* path and data of the product _resample_to_match makes for swir
    nbr,               \* pre_nbr, post_nbr
    dnbr, severity,    \* the dNBR and severity rasters
    result,            \* TRUE once download_and_prepare has returned its NBRRunResult
    stats,             \* what compute_statistics returned
    epc                \* the position of each epoch's worker when the epochs run in parallel

pipeVars ==
    <<pc, log, error, apply_cloud_mask, bands, item, paths, files, nir, swir, mask,
      resampled, nbr, dnbr, severity, result, stats, epc>>

vars == <<fnVars, pipeVars>>

\* widest input raster of the function checks (rasters are 1 x 1 .. 1 x MaxFnCols)
MaxFnCols == 3

\* pixel values the input rasters are built from, in thousandths, then NaN, +-Inf:
\* the class bounds and their neighbours, reflectances, values outside [-1, 1]
ProbeMilli ==
    << -2000, -1000, -800, -501, -500, -499, -250, -100, -1, 0, 99, 100, 200, 269, 270,
       300, 600, 659, 660, 800, 1000, 1299, 1300, 2000 >>

Probes == [i \in 1 .. Len(ProbeMilli) |-> Milli(ProbeMilli[i])] \o <<NaN, PInf, NInf>>

\* the 1 x n raster whose pixels are the n probes from position start on (cyclically)
ProbeRaster(start, n) ==
    [shape |-> <<1, n>>,
     px |-> [p \in Pixels(<<1, n>>) |-> Probes[((start + p[2] - 2) % Len(Probes)) + 1]]]

FnRasters == {ProbeRaster(start, n) : start \in 1 .. Len(Probes), n \in 1 .. MaxFnCols}

\* band lists: the default one, and two with overlapping bands
OverlapLowModerate ==
    [BURN_SEVERITY_CLASSES EXCEPT ![5] =
        BurnSeverityClass("Moderate Severity", Milli(200), Milli(660), <<244, 109, 67>>)]

OverlapReversed ==
    << BurnSeverityClass("High Severity", Milli(660), Milli(1300), <<215, 48, 39>>),
       BurnSeverityClass("Burned", Milli(100), Milli(1300), <<253, 174, 97>>),
       BurnSeverityClass("Unburned", Milli(-100), Milli(100), <<255, 255, 190>>) >>

BandLists == {BURN_SEVERITY_CLASSES, OverlapLowModerate, OverlapReversed}

\* colormaps of strictly increasing stops: the default one, black to white over
\* [0, 1], three stops over [0, 1], and two stops that do not reach 0 and 1
Ramps ==
    { DEFAULT_DNBR_COLORMAP,
      << <<R(0, 1), <<0, 0, 0>> >>, <<R(1, 1), <<255, 255, 255>> >> >>,
      << <<R(0, 1), <<10, 200, 0>> >>, <<R(3, 10), <<250, 200, 90>> >>,
         <<R(1, 1), <<250, 20, 255>> >> >>,
      << <<R(1, 5), <<100, 200, 0>> >>, <<R(4, 5), <<200, 100, 255>> >> >> }

\* (min_val, max_val) pairs with min_val < max_val
MinMaxPairs == {<<R(-1, 1), R(1, 1)>>, <<Milli(-500), Milli(1300)>>, <<R(0, 1), R(1, 1)>>}

NoArray == [shape |-> <<0, 0>>, px |-> <<>>]

Untracked == [prev |-> "untracked", a0 |-> NoArray, b0 |-> NoArray]

FnInit ==
    /\ fnA \in FnRasters
    /\ fnB \in FnRasters
    /\ fnOp = "none"
    /\ fnBands = <<>>
    /\ fnMin = NaN
    /\ fnMax = NaN
    /\ fnOut = NoArray
    /\ fnErr = ""
    /\ fnRamp = <<>>
    /\ fnHist = Untracked

NoArgs ==
    /\ fnBands' = <<>>
    /\ fnMin' = NaN
    /\ fnMax' = NaN
    /\ fnRamp' = <<>>

\* the history after one more call
Before == IF fnHist = Untracked THEN Untracked ELSE [fnHist EXCEPT !.prev = fnOp]

\* Where no history is kept a run is one call: the calls leave their arguments
\* alone, so a further call on them would only compute the same results again.
\* Where the history is kept the calls follow each other in every order.
Callable == fnHist = Untracked => fnOp = "none"

FnReturn(op, out) ==
    /\ Callable
    /\ fnOp' = op
    /\ fnOut' = out
    /\ fnErr' = ""
    /\ fnHist' = Before

FnRaise(op, exc) ==
    /\ Callable
    /\ fnOp' = op
    /\ fnOut' = NoArray
    /\ fnErr' = exc
    /\ fnHist' = Before

\* calculate_nbr(fnA, fnB)
DoCalculateNbr ==
    /\ IF raises_ValueError(fnA, fnB)
       THEN FnRaise("calculate_nbr", "ValueError")
       ELSE FnReturn("calculate_nbr", calculate_nbr(fnA, fnB))
    /\ NoArgs
    /\ UNCHANGED <<fnA, fnB, pipeVars>>

\* calculate_dnbr(fnA, fnB)
DoCalculateDnbr ==
    /\ IF raises_ValueError(fnA, fnB)
       THEN FnRaise("calculate_dnbr", "ValueError")
       ELSE FnReturn("calculate_dnbr", calculate_dnbr(fnA, fnB))
    /\ NoArgs
    /\ UNCHANGED <<fnA, fnB, pipeVars>>

\* classify_dnbr(fnA) with BURN_SEVERITY_CLASSES set to one of BandLists
DoClassifyDnbr ==
    \E classes \in BandLists :
        /\ FnReturn("classify_dnbr", classify_with(fnA, classes))
        /\ fnBands' = classes
        /\ fnMin' = NaN
        /\ fnMax' = NaN
        /\ fnRamp' = <<>>
        /\ UNCHANGED <<fnA, fnB, pipeVars>>

\* normalize_for_overlay(fnA, min_val, max_val)
DoNormalize ==
    \E mm \in MinMaxPairs :
        /\ FnReturn("normalize_for_overlay", normalize_for_overlay(fnA, mm[1], mm[2]))
        /\ fnMin' = mm[1]
        /\ fnMax' = mm[2]
        /\ fnBands' = <<>>
        /\ fnRamp' = <<>>
        /\ UNCHANGED <<fnA, fnB, pipeVars>>

\* a raster_overlay that clips its argument in place (np.clip(..., out=array))
MutOverlayInPlace ==
    /\ FnReturn("raster_overlay", raster_overlay(fnA, DEFAULT_DNBR_COLORMAP))
    /\ NoArgs
    /\ fnA' = [fnA EXCEPT !.px = [p \in Pixels(fnA.shape) |-> clip(fnA.px[p], R(-1, 1), R(1, 1))]]
    /\ UNCHANGED <<fnB, pipeVars>>

\* raster_overlay(fnA) with the default colormap
DoRasterOverlay ==
    /\ FnReturn("raster_overlay", raster_overlay(fnA, DEFAULT_DNBR_COLORMAP))
    /\ NoArgs
    /\ UNCHANGED <<fnA, fnB, pipeVars>>

\* colorize(fnA, colormap)
DoColorize ==
    \E colormap \in Ramps :
        /\ FnReturn("colorize", colorize(fnA, colormap))
        /\ fnRamp' = colormap
        /\ fnBands' = <<>>
        /\ fnMin' = NaN
        /\ fnMax' = NaN
        /\ UNCHANGED <<fnA, fnB, pipeVars>>

\* statistics with the two thresholds exchanged
MutThresholdsSwapped(d) ==
    LET valid == {p \in Pixels(d.shape) : ~isnan(d.px[p])}
        total_pixels == Cardinality(valid)
        burned_pixels == Cardinality({p \in valid : FGt(d.px[p], R(66, 100))})
        high_severity == Cardinality({p \in valid : FGt(d.px[p], R(10, 100))})
    IN  [total_area_km2 |-> R(total_pixels, 10000),
         burned_area_km2 |-> R(burned_pixels, 10000),
         burned_percentage |->
            IF total_pixels > 0 THEN R(100 * burned_pixels, total_pixels) ELSE R(0, 1),
         high_severity_km2 |-> R(high_severity, 10000),
         high_severity_percentage |->
            IF total_pixels > 0 THEN R(100 * high_severity, total_pixels) ELSE R(0, 1)]

\* NBRPipeline.compute_statistics (pipeline.py), on the array of result.dnbr
compute_statistics(d) ==
    LET valid == {p \in Pixels(d.shape) : ~isnan(d.px[p])}
        total_pixels == Cardinality(valid)
        burned_pixels == Cardinality({p \in valid : FGt(d.px[p], R(10, 100))})
        high_severity == Cardinality({p \in valid : FGt(d.px[p], R(66, 100))})
    IN  [total_area_km2 |-> R(total_pixels, 10000),
         burned_area_km2 |-> R(burned_pixels, 10000),
         burned_percentage |->
            IF total_pixels > 0 THEN R(100 * burned_pixels, total_pixels) ELSE R(0, 1),
         high_severity_km2 |-> R(high_severity, 10000),
         high_severity_percentage |->
            IF total_pixels > 0 THEN R(100 * high_severity, total_pixels) ELSE R(0, 1)]

\* compute_statistics(result) with result.dnbr.array = fnA
DoComputeStatistics ==
    /\ FnReturn("compute_statistics", compute_statistics(fnA))
    /\ NoArgs
    /\ UNCHANGED <<fnA, fnB, pipeVars>>

FnNext ==
    \/ DoCalculateNbr
    \/ DoCalculateDnbr
    \/ DoClassifyDnbr
    \/ DoNormalize
    \/ DoRasterOverlay
    \/ DoColorize
    \/ DoComputeStatistics

(***************************************************************************)
(* data_access.py and pipeline.py: one run of download_and_prepare,        *)
(* followed by compute_statistics on its result.                           *)
(*                                                                         *)
(* A STAC item is its id and the set of its asset keys.  A file on disk is *)
(* the shape and the raw (integer) pixel values rasterio.open reads from   *)
(* it; its content is fixed when the file is first opened.                 *)
(***************************************************************************)
Epochs == {"pre", "post"}

\* largest raster of a pipeline run: 1 .. MaxRows by 1 .. MaxCols pixels
MaxRows == 2
MaxCols == 3

Shapes == (1 .. MaxRows) \X (1 .. MaxCols)

\* the shape of a 20 m band on the grid of a 10 m band
CoarseShape(shape) == <<(shape[1] + 1) \div 2, (shape[2] + 1) \div 2>>

\* raw digital numbers of (B08, B12) of one epoch; every pixel of a band file holds
\* the same number
EpochRaw == {<<8000, 2000>>, <<3000, 6000>>}

UniformFile(shape, v) == [shape |-> shape, raw |-> [p \in Pixels(shape) |-> v]]

\* the SCL files (scene classification: 4 vegetation, 9 cloud high probability):
\* cloud free, or cloudy at the top-left pixel only
SclFiles(shape) ==
    { UniformFile(shape, 4),
      [shape |-> shape,
       raw |-> [p \in Pixels(shape) |-> IF p = <<1, 1>> THEN 9 ELSE 4]] }

NoFile == [shape |-> <<0, 0>>, raw |-> <<>>]
NoItem == [id |-> "", assets |-> {}]
NoError == [stage |-> "", exc |-> "", band |-> "", item_id |-> ""]
NoRaster == [path |-> <<>>, array |-> NoArray]
NoStats == <<>>

RasterProduct(path, array) == [path |-> path, array |-> array]

\* the band tuples the pipeline is run with (the default, and one without SCL)
BandChoices == {<<"B08", "B12", "SCL">>, <<"B08", "B12">>}

\* asset maps of the items the catalogue returns
AssetChoices == {{"B08", "B12", "SCL"}, {"B08", "B12"}}

ItemId(e) == IF e = "pre" THEN "S2_PRE" ELSE "S2_POST"

\* what connector.search does: raise (raise_for_status), or return a list of items
SearchOutcomes(e) ==
    {[exc |-> "HTTPError", items |-> <<>>], [exc |-> "", items |-> <<>>]}
    \cup {[exc |-> "", items |-> <<[id |-> ItemId(e), assets |-> a]>>] : a \in AssetChoices}

\* the assets whose transfer fails in download_asset (raise_for_status)
BadTransfers == {{}, {"B08"}, {"B12"}, {"SCL"}}

(***************************************************************************)
(* data_access.py                                                          *)
(***************************************************************************)
\* a download_bands that leaves out a band the item has no asset for
RECURSIVE MutSkipMissing(_, _, _, _, _)
MutSkipMissing(it, bs, bad, i, downloaded) ==
    IF i > Len(bs) THEN [exc |-> "", band |-> "", item_id |-> "", downloaded |-> downloaded]
    ELSE LET band == bs[i]
             asset_key == IF band \in it.assets THEN band ELSE "B" \o band
         IN  IF asset_key \notin it.assets
             THEN MutSkipMissing(it, bs, bad, i + 1, downloaded)
             ELSE IF asset_key \in bad
             THEN [exc |-> "HTTPError", band |-> "", item_id |-> "", downloaded |-> {}]
             ELSE MutSkipMissing(it, bs, bad, i + 1, downloaded \cup {band})

\* download_bands: the loop over bands from position i on
RECURSIVE download_bands_from(_, _, _, _, _)
download_bands_from(it, bs, bad, i, downloaded) ==
    IF i > Len(bs) THEN [exc |-> "", band |-> "", item_id |-> "", downloaded |-> downloaded]
    ELSE LET band == bs[i]
             asset_key == IF band \in it.assets THEN band ELSE "B" \o band
         IN  IF asset_key \notin it.assets
             THEN [exc |-> "KeyError", band |-> band, item_id |-> it.id, downloaded |-> {}]
             ELSE IF asset_key \in bad
             THEN [exc |-> "HTTPError", band |-> "", item_id |-> "", downloaded |-> {}]
             ELSE download_bands_from(it, bs, bad, i + 1, downloaded \cup {band})

download_bands(it, bs, bad) == download_bands_from(it, bs, bad, 1, {})

(***************************************************************************)
(* pipeline.py                                                             *)
(***************************************************************************)
\* _load_raster: dataset.read(1) as float, divided by 10000 if scale_reflectance
_load_raster(path, file, scale_reflectance) ==
    RasterProduct(path,
        [shape |-> file.shape,
         px |-> [p \in Pixels(file.shape) |->
                    R(file.raw[p], IF scale_reflectance THEN 10000 ELSE 1)]])

\* the source pixel that pixel t of n reads when m source pixels are resampled to n
SourceIndex(t, n, m) == ((t - 1) * m) \div n + 1

\* dataset.read(1, out_shape=(dataset.count, rows, cols), resampling=...): the band
\* index is an int, for which rasterio returns the band as a 2-D array, here of
\* shape rows x cols, holding the numbers of the file as stored (no division by
\* 10000).  The resampling kernel is rasterio's; here a target pixel takes the
\* value of the source pixel it falls in.
read_out_shape(file, shape) ==
    [shape |-> shape,
     px |-> [p \in Pixels(shape) |->
                R(file.raw[<<SourceIndex(p[1], shape[1], file.shape[1]),
                             SourceIndex(p[2], shape[2], file.shape[2])>>], 1)]]

\* a[0] of a 2-D array: its first row, a 1-D array
first_row(a) ==
    [shape |-> <<a.shape[2]>>, px |-> [c \in 1 .. a.shape[2] |-> a.px[<<1, c>>]]]

\* _resample_to_match: the source FILE is read again at the target's shape and
\* data is [0] of what was read; the transform then takes data.shape[-1] and
\* data.shape[-2], and a tuple index out of range raises IndexError.  exc is the
\* exception raised ("" if none), product the RasterProduct made of data.
_resample_to_match(source, file, target) ==
    LET data == first_row(read_out_shape(file, target.array.shape))
    IN  [exc |-> IF Len(data.shape) < 2 THEN "IndexError" ELSE "",
         product |-> RasterProduct(source.path, data)]

cloudy_classes == {8, 9, 10, 11}

\* np.isin(scl.array, cloudy_classes)
isin_cloudy(scl) ==
    [shape |-> scl.array.shape,
     px |-> [p \in DOMAIN scl.array.px |-> scl.array.px[p] \in {R(c, 1) : c \in cloudy_classes}]]

\* _build_cloud_mask: exc is the exception raised ("" if none), mask the array
\* returned
_build_cloud_mask(scl, file, target) ==
    IF scl.array.shape # target.array.shape
    THEN LET r == _resample_to_match(scl, file, target)
         IN  IF r.exc # "" THEN [exc |-> r.exc, mask |-> NoArray]
             ELSE [exc |-> "", mask |-> isin_cloudy(r.product)]
    ELSE [exc |-> "", mask |-> isin_cloudy(scl)]

\* array[mask] = np.nan raises IndexError unless the boolean mask has the array's shape
mask_raises(product, m) == product.array.shape # m.shape

\* NaN written at the pixels the mask does not select
MutSetNanOutside(product, m) ==
    [product EXCEPT !.array.px = [p \in Pixels(product.array.shape) |->
                                    IF m.px[p] THEN product.array.px[p] ELSE NaN]]

\* product.array[mask] = np.nan
set_nan(product, m) ==
    [product EXCEPT !.array.px = [p \in Pixels(product.array.shape) |->
                                    IF m.px[p] THEN NaN ELSE product.array.px[p]]]

Fail(stage, exc, band, item_id) ==
    /\ pc' = "Failed"
    /\ error' = [stage |-> stage, exc |-> exc, band |-> band, item_id |-> item_id]

\* the rasters shapes of an epoch differ, so _compute_nbr resamples B12
NeedsResample(e) == nir[e].array.shape # swir[e].array.shape

PipeInit ==
    /\ pc = "SearchPre"
    /\ log = <<"Init">>
    /\ error = NoError
    /\ apply_cloud_mask \in BOOLEAN
    /\ bands \in BandChoices
    /\ item = [e \in Epochs |-> NoItem]
    /\ paths = [e \in Epochs |-> {}]
    /\ files = [e \in Epochs |-> [b \in {"B08", "B12", "SCL"} |-> NoFile]]
    /\ nir = [e \in Epochs |-> NoRaster]
    /\ swir = [e \in Epochs |-> NoRaster]
    /\ mask = [e \in Epochs |-> NoArray]
    /\ resampled = [e \in Epochs |-> NoRaster]
    /\ nbr = [e \in Epochs |-> NoRaster]
    /\ dnbr = NoRaster
    /\ severity = NoRaster
    /\ result = FALSE
    /\ stats = NoStats
    /\ epc = [e \in Epochs |-> "Sequential"]

\* a fetch that goes on without an item when the search returns none
MutFetchItemSwallow(e, stage, next) ==
    /\ pc = stage
    /\ log' = Append(log, stage)
    /\ \E out \in SearchOutcomes(e) :
        IF out.exc # ""
        THEN Fail(stage, out.exc, "", "") /\ UNCHANGED item
        ELSE /\ item' = [item EXCEPT ![e] = IF out.items = <<>> THEN NoItem ELSE out.items[1]]
             /\ pc' = next
             /\ UNCHANGED error
    /\ UNCHANGED <<apply_cloud_mask, bands, paths, files, nir, swir, mask, resampled,
                   nbr, dnbr, severity, result, stats, fnVars, epc>>

\* _fetch_item(geometry, window, cloud_cover) for epoch e
FetchItem(e, stage, next) ==
    /\ pc = stage
    /\ log' = Append(log, stage)
    /\ \E out \in SearchOutcomes(e) :
        IF out.exc # ""
        THEN Fail(stage, out.exc, "", "") /\ UNCHANGED item
        ELSE IF out.items = <<>>
        THEN Fail(stage, "RuntimeError", "", "") /\ UNCHANGED item
        ELSE /\ item' = [item EXCEPT ![e] = out.items[1]]
             /\ pc' = next
             /\ UNCHANGED error
    /\ UNCHANGED <<apply_cloud_mask, bands, paths, files, nir, swir, mask, resampled,
                   nbr, dnbr, severity, result, stats, fnVars, epc>>

MutSearchPreThenDownload == FetchItem("pre", "SearchPre", "DownloadPre")

SearchPre == FetchItem("pre", "SearchPre", "SearchPost")

SearchPost == FetchItem("post", "SearchPost", "DownloadPre")

\* self.connector.download_bands(item, bands, target_dir / e)
DownloadBands(e, stage, next) ==
    /\ pc = stage
    /\ log' = Append(log, stage)
    /\ \E bad \in BadTransfers :
        LET out == download_bands(item[e], bands, bad)
        IN  IF out.exc # ""
            THEN Fail(stage, out.exc, out.band, out.item_id) /\ UNCHANGED paths
            ELSE /\ paths' = [paths EXCEPT ![e] = out.downloaded]
                 /\ pc' = next
                 /\ UNCHANGED error
    /\ UNCHANGED <<apply_cloud_mask, bands, item, files, nir, swir, mask, resampled,
                   nbr, dnbr, severity, result, stats, fnVars, epc>>

DownloadPre == DownloadBands("pre", "DownloadPre", "DownloadPost")

DownloadPost == DownloadBands("post", "DownloadPost", "LoadBands")

\* the stage after masking (or after loading, when masking is skipped)
ComputeStage(e, n, s) ==
    IF n[e].array.shape # s[e].array.shape
    THEN (IF e = "pre" THEN "ResamplePre" ELSE "ResamplePost")
    ELSE (IF e = "pre" THEN "ComputeNBRPre" ELSE "ComputeNBRPost")

\* if apply_cloud_mask and "SCL" in pre_paths and "SCL" in post_paths
MutMaskOnFlagOnly == apply_cloud_mask

MaskCondition == apply_cloud_mask /\ "SCL" \in paths["pre"] /\ "SCL" \in paths["post"]

\* the four _load_raster calls of B08 and B12
LoadBands ==
    /\ pc = "LoadBands"
    /\ log' = Append(log, "LoadBands")
    /\ \E shp \in [Epochs -> Shapes], coarse \in [Epochs -> BOOLEAN], raw \in [Epochs -> EpochRaw] :
        LET f == [e \in Epochs |->
                    [b \in {"B08", "B12", "SCL"} |->
                        CASE b = "B08" -> UniformFile(shp[e], raw[e][1])
                          [] b = "B12" -> UniformFile(IF coarse[e] THEN CoarseShape(shp[e])
                                                      ELSE shp[e], raw[e][2])
                          [] OTHER -> NoFile]]
            n == [e \in Epochs |-> _load_raster(<<e, "B08">>, f[e]["B08"], TRUE)]
            s == [e \in Epochs |-> _load_raster(<<e, "B12">>, f[e]["B12"], TRUE)]
        IN  /\ files' = f
            /\ nir' = n
            /\ swir' = s
            /\ pc' = IF MaskCondition THEN "Mask" ELSE ComputeStage("pre", n, s)
    /\ UNCHANGED <<error, apply_cloud_mask, bands, item, paths, mask, resampled,
                   nbr, dnbr, severity, result, stats, fnVars, epc>>

\* the body of "if apply_cloud_mask and ...": load SCL, build both masks, write NaN
\* into the four band arrays in the order of the code, stopping at the first
\* call or assignment that raises
Mask ==
    /\ pc = "Mask"
    /\ log' = Append(log, "Mask")
    /\ \E sclshape \in [Epochs -> BOOLEAN] :
       \E f \in [Epochs -> UNION {SclFiles(sh) : sh \in Shapes}] :
        /\ \A e \in Epochs :
            f[e].shape = IF sclshape[e] THEN CoarseShape(nir[e].array.shape)
                         ELSE nir[e].array.shape
        /\ LET scl == [e \in Epochs |-> _load_raster(<<e, "SCL">>, f[e], FALSE)]
               built == [e \in Epochs |-> _build_cloud_mask(scl[e], f[e], nir[e])]
               m == [e \in Epochs |-> built[e].mask]
               pre_nir == set_nan(nir["pre"], m["pre"])
               post_nir == set_nan(nir["post"], m["post"])
           IN  /\ files' = [e \in Epochs |-> [files[e] EXCEPT !["SCL"] = f[e]]]
               /\ IF built["pre"].exc # ""
                  THEN /\ Fail("Mask", built["pre"].exc, "", "")
                       /\ UNCHANGED <<mask, nir, swir>>
                  ELSE IF built["post"].exc # ""
                  THEN /\ Fail("Mask", built["post"].exc, "", "")
                       /\ mask' = [mask EXCEPT !["pre"] = m["pre"]]
                       /\ UNCHANGED <<nir, swir>>
                  ELSE IF mask_raises(swir["pre"], m["pre"])
                  THEN /\ mask' = m
                       /\ nir' = [nir EXCEPT !["pre"] = pre_nir]
                       /\ UNCHANGED swir
                       /\ Fail("Mask", "IndexError", "", "")
                  ELSE IF mask_raises(swir["post"], m["post"])
                  THEN /\ mask' = m
                       /\ nir' = [e \in Epochs |-> IF e = "pre" THEN pre_nir ELSE post_nir]
                       /\ swir' = [swir EXCEPT !["pre"] = set_nan(swir["pre"], m["pre"])]
                       /\ Fail("Mask", "IndexError", "", "")
                  ELSE /\ mask' = m
                       /\ nir' = [e \in Epochs |-> IF e = "pre" THEN pre_nir ELSE post_nir]
                       /\ swir' = [e \in Epochs |-> set_nan(swir[e], m[e])]
                       /\ pc' = ComputeStage("pre", nir, swir)
                       /\ UNCHANGED error
    /\ UNCHANGED <<apply_cloud_mask, bands, item, paths, resampled,
                   nbr, dnbr, severity, result, stats, fnVars, epc>>

\* _compute_nbr, first half: swir = self._resample_to_match(swir, nir)
Resample(e, stage, next) ==
    /\ pc = stage
    /\ log' = Append(log, stage)
    /\ LET r == _resample_to_match(swir[e], files[e]["B12"], nir[e])
       IN  /\ resampled' = [resampled EXCEPT ![e] = r.product]
           /\ IF r.exc # ""
              THEN Fail(stage, r.exc, "", "")
              ELSE pc' = next /\ UNCHANGED error
    /\ UNCHANGED <<apply_cloud_mask, bands, item, paths, files, nir, swir, mask,
                   nbr, dnbr, severity, result, stats, fnVars, epc>>

ResamplePre == Resample("pre", "ResamplePre", "ComputeNBRPre")

ResamplePost == Resample("post", "ResamplePost", "ComputeNBRPost")

\* the swir product calculate_nbr is called with
SwirUsed(e) == IF NeedsResample(e) THEN resampled[e] ELSE swir[e]

\* _compute_nbr, second half: calculate_nbr(nir.array, swir.array)
ComputeNBR(e, stage, next) ==
    /\ pc = stage
    /\ log' = Append(log, stage)
    /\ nbr' = [nbr EXCEPT ![e] =
                  RasterProduct(SwirUsed(e).path, calculate_nbr(nir[e].array, SwirUsed(e).array))]
    /\ pc' = next
    /\ UNCHANGED <<error, apply_cloud_mask, bands, item, paths, files, nir, swir, mask,
                   resampled, dnbr, severity, result, stats, fnVars, epc>>

ComputeNBRPre == ComputeNBR("pre", "ComputeNBRPre", ComputeStage("post", nir, swir))

ComputeNBRPost == ComputeNBR("post", "ComputeNBRPost", "ComputeDNBR")

\* dnbr_array = calculate_dnbr(pre_nbr.array, post_nbr.array)
ComputeDNBR ==
    /\ pc = "ComputeDNBR"
    /\ log' = Append(log, "ComputeDNBR")
    /\ IF raises_ValueError(nbr["pre"].array, nbr["post"].array)
       THEN Fail("ComputeDNBR", "ValueError", "", "") /\ UNCHANGED dnbr
       ELSE /\ dnbr' = RasterProduct(<<"dnbr.tif">>,
                            calculate_dnbr(nbr["pre"].array, nbr["post"].array))
            /\ pc' = "Classify"
            /\ UNCHANGED error
    /\ UNCHANGED <<apply_cloud_mask, bands, item, paths, files, nir, swir, mask,
                   resampled, nbr, severity, result, stats, fnVars, epc>>

\* severity_array = classify_dnbr(dnbr_array)
Classify ==
    /\ pc = "Classify"
    /\ log' = Append(log, "Classify")
    /\ severity' = RasterProduct(<<"severity.tif">>, classify_dnbr(dnbr.array))
    /\ pc' = "Return"
    /\ UNCHANGED <<error, apply_cloud_mask, bands, item, paths, files, nir, swir, mask,
                   resampled, nbr, dnbr, result, stats, fnVars, epc>>

\* return NBRRunResult(...): download_and_prepare is done
Return ==
    /\ pc = "Return"
    /\ log' = Append(log, "Done")
    /\ result' = TRUE
    /\ pc' = "Done"
    /\ UNCHANGED <<error, apply_cloud_mask, bands, item, paths, files, nir, swir, mask,
                   resampled, nbr, dnbr, severity, stats, fnVars, epc>>

\* the caller passes the result to compute_statistics
Statistics ==
    /\ pc = "Done"
    /\ result
    /\ stats = NoStats
    /\ log' = Append(log, "Statistics")
    /\ stats' = compute_statistics(dnbr.array)
    /\ UNCHANGED <<pc, error, apply_cloud_mask, bands, item, paths, files, nir, swir, mask,
                   resampled, nbr, dnbr, severity, result, fnVars, epc>>

PipeNext ==
    \/ SearchPre
    \/ SearchPost
    \/ DownloadPre
    \/ DownloadPost
    \/ LoadBands
    \/ Mask
    \/ ResamplePre
    \/ ComputeNBRPre
    \/ ResamplePost
    \/ ComputeNBRPost
    \/ ComputeDNBR
    \/ Classify
    \/ Return
    \/ Statistics

\* the pipeline variables while only the functions are exercised, and the reverse
PipeIdle == PipeInit /\ apply_cloud_mask = TRUE /\ bands = <<"B08", "B12", "SCL">>

FnIdle ==
    /\ fnA = NoArray
    /\ fnB = NoArray
    /\ fnOp = "none"
    /\ fnBands = <<>>
    /\ fnMin = NaN
    /\ fnMax = NaN
    /\ fnOut = NoArray
    /\ fnErr = ""
    /\ fnRamp = <<>>
    /\ fnHist = Untracked

\* one run of the pipeline
Init == PipeInit /\ FnIdle

Next == PipeNext

Spec == Init /\ [][Next]_vars

\* the functions of processing.py and viz.py on the probe rasters
FnStart == FnInit /\ PipeIdle

FnSpec == FnStart /\ [][FnNext]_vars

\* the same functions called one after the other on the same two arrays, the
\* order of the calls being followed
OrderInit ==
    /\ fnA \in FnRasters
    /\ fnB \in {ProbeRaster(start, fnA.shape[2]) : start \in {1, 13}}
    /\ fnOp = "none"
    /\ fnBands = <<>>
    /\ fnMin = NaN
    /\ fnMax = NaN
    /\ fnOut = NoArray
    /\ fnErr = ""
    /\ fnRamp = <<>>
    /\ fnHist = [prev |-> "none", a0 |-> fnA, b0 |-> fnB]

OrderStart == OrderInit /\ PipeIdle

OrderSpec == OrderStart /\ [][FnNext]_vars

(***************************************************************************)
(* SentinelStacConnector.download_bands called on its own: item["pre"] is  *)
(* the item, bands the bands asked for, paths["pre"] the mapping returned. *)
(* The item carries, next to its asset keys, the keys whose href does not  *)
(* answer (download_asset raises for them).                                *)
(***************************************************************************)
AccessAssets ==
    { {"B08", "B12", "SCL"}, {"B08", "B12"}, {"B08"}, {"B12", "SCL"}, {},
      {"B08", "B12", "BSCL"} }

AccessItems ==
    { [id |-> ItemId(e), assets |-> a, dead |-> d] :
        e \in Epochs, a \in AccessAssets, d \in {{}} \cup {{k} : k \in UNION AccessAssets} }

AccessBands ==
    { <<"B08", "B12", "SCL">>, <<"B08", "B12">>, <<"08", "12">>, <<"08", "B12", "SCL">>,
      <<"B8A">>, <<>> }

AccessInit ==
    /\ pc = "download_bands"
    /\ log = <<"Init">>
    /\ error = NoError
    /\ apply_cloud_mask = TRUE
    /\ bands \in AccessBands
    /\ \E it \in AccessItems :
        /\ it.dead \subseteq it.assets
        /\ item = [e \in Epochs |-> IF e = "pre" THEN it ELSE NoItem]
    /\ paths = [e \in Epochs |-> {}]
    /\ files = [e \in Epochs |-> [b \in {"B08", "B12", "SCL"} |-> NoFile]]
    /\ nir = [e \in Epochs |-> NoRaster]
    /\ swir = [e \in Epochs |-> NoRaster]
    /\ mask = [e \in Epochs |-> NoArray]
    /\ resampled = [e \in Epochs |-> NoRaster]
    /\ nbr = [e \in Epochs |-> NoRaster]
    /\ dnbr = NoRaster
    /\ severity = NoRaster
    /\ result = FALSE
    /\ stats = NoStats
    /\ epc = [e \in Epochs |-> "Sequential"]

\* connector.download_bands(item, bands, target_dir)
DoDownloadBands ==
    /\ pc = "download_bands"
    /\ log' = Append(log, "download_bands")
    /\ LET out == download_bands(item["pre"], bands, item["pre"].dead)
       IN  IF out.exc # ""
           THEN Fail("download_bands", out.exc, out.band, out.item_id) /\ UNCHANGED paths
           ELSE /\ paths' = [paths EXCEPT !["pre"] = out.downloaded]
                /\ pc' = "Returned"
                /\ UNCHANGED error
    /\ UNCHANGED <<apply_cloud_mask, bands, item, files, nir, swir, mask, resampled,
                   nbr, dnbr, severity, result, stats, fnVars, epc>>

AccessNext == DoDownloadBands

AccessStart == AccessInit /\ FnIdle

AccessSpec == AccessStart /\ [][AccessNext]_vars

(***************************************************************************)
(* The computations of the two epochs (lines 132-145 of pipeline.py: cloud *)
(* mask, NaN writes, _compute_nbr) run by one worker per epoch, the steps  *)
(* of the two workers interleaved in every order; download_and_prepare     *)
(* goes on with calculate_dnbr once both workers are done.                 *)
(***************************************************************************)
\* the shapes of the B08 file of an epoch
ParShapes == {<<1, 1>>, <<MaxRows, MaxCols>>}

\* the first step of the worker of epoch e that computes the NBR
ParComputeStep(e, n, s) ==
    IF n[e].array.shape # s[e].array.shape THEN "Resample" ELSE "ComputeNBR"

\* the state after the four _load_raster calls of B08 and B12, the SCL files on disk
ParInit ==
    /\ pc = "Par"
    /\ log = <<"Init">>
    /\ error = NoError
    /\ apply_cloud_mask \in BOOLEAN
    /\ bands = <<"B08", "B12", "SCL">>
    /\ item = [e \in Epochs |-> [id |-> ItemId(e), assets |-> {"B08", "B12", "SCL"}]]
    /\ paths = [e \in Epochs |-> {"B08", "B12", "SCL"}]
    /\ \E shp \in [Epochs -> ParShapes], coarse \in [Epochs -> BOOLEAN],
          sclcoarse \in [Epochs -> BOOLEAN], cloudy \in [Epochs -> BOOLEAN],
          raw \in [Epochs -> EpochRaw] :
        LET sclshape(e) == IF sclcoarse[e] THEN CoarseShape(shp[e]) ELSE shp[e]
        IN  files = [e \in Epochs |->
                       [b \in {"B08", "B12", "SCL"} |->
                           CASE b = "B08" -> UniformFile(shp[e], raw[e][1])
                             [] b = "B12" -> UniformFile(IF coarse[e] THEN CoarseShape(shp[e])
                                                         ELSE shp[e], raw[e][2])
                             [] OTHER -> IF cloudy[e]
                                         THEN [shape |-> sclshape(e),
                                               raw |-> [p \in Pixels(sclshape(e)) |->
                                                           IF p = <<1, 1>> THEN 9 ELSE 4]]
                                         ELSE UniformFile(sclshape(e), 4)]]
    /\ nir = [e \in Epochs |-> _load_raster(<<e, "B08">>, files[e]["B08"], TRUE)]
    /\ swir = [e \in Epochs |-> _load_raster(<<e, "B12">>, files[e]["B12"], TRUE)]
    /\ mask = [e \in Epochs |-> NoArray]
    /\ resampled = [e \in Epochs |-> NoRaster]
    /\ nbr = [e \in Epochs |-> NoRaster]
    /\ dnbr = NoRaster
    /\ severity = NoRaster
    /\ result = FALSE
    /\ stats = NoStats
    /\ epc = [e \in Epochs |-> IF MaskCondition THEN "BuildMask" ELSE ParComputeStep(e, nir, swir)]

\* a worker that writes the mask it built into a buffer both workers use
MutBuildMaskShared(e) ==
    /\ pc = "Par"
    /\ epc[e] = "BuildMask"
    /\ LET scl == _load_raster(<<e, "SCL">>, files[e]["SCL"], FALSE)
           built == _build_cloud_mask(scl, files[e]["SCL"], nir[e])
       IN  IF built.exc # ""
           THEN epc' = [epc EXCEPT ![e] = "Raised"] /\ UNCHANGED mask
           ELSE /\ mask' = [x \in Epochs |-> built.mask]
                /\ epc' = [epc EXCEPT ![e] = "MaskNir"]
    /\ UNCHANGED <<pc, log, error, apply_cloud_mask, bands, item, paths, files, nir, swir,
                   resampled, nbr, dnbr, severity, result, stats, fnVars>>

\* e_scl = _load_raster(e_paths["SCL"], scale_reflectance=False);
\* e_mask = _build_cloud_mask(e_scl, e_nir, cloudy_classes)
ParBuildMask(e) ==
    /\ pc = "Par"
    /\ epc[e] = "BuildMask"
    /\ LET scl == _load_raster(<<e, "SCL">>, files[e]["SCL"], FALSE)
           built == _build_cloud_mask(scl, files[e]["SCL"], nir[e])
       IN  IF built.exc # ""
           THEN epc' = [epc EXCEPT ![e] = "Raised"] /\ UNCHANGED mask
           ELSE /\ mask' = [mask EXCEPT ![e] = built.mask]
                /\ epc' = [epc EXCEPT ![e] = "MaskNir"]
    /\ UNCHANGED <<pc, log, error, apply_cloud_mask, bands, item, paths, files, nir, swir,
                   resampled, nbr, dnbr, severity, result, stats, fnVars>>

\* e_nir.array[e_mask] = np.nan
ParMaskNir(e) ==
    /\ pc = "Par"
    /\ epc[e] = "MaskNir"
    /\ IF mask_raises(nir[e], mask[e])
       THEN epc' = [epc EXCEPT ![e] = "Raised"] /\ UNCHANGED nir
       ELSE /\ nir' = [nir EXCEPT ![e] = set_nan(nir[e], mask[e])]
            /\ epc' = [epc EXCEPT ![e] = "MaskSwir"]
    /\ UNCHANGED <<pc, log, error, apply_cloud_mask, bands, item, paths, files, swir, mask,
                   resampled, nbr, dnbr, severity, result, stats, fnVars>>

\* e_swir.array[e_mask] = np.nan
ParMaskSwir(e) ==
    /\ pc = "Par"
    /\ epc[e] = "MaskSwir"
    /\ IF mask_raises(swir[e], mask[e])
       THEN epc' = [epc EXCEPT ![e] = "Raised"] /\ UNCHANGED swir
       ELSE /\ swir' = [swir EXCEPT ![e] = set_nan(swir[e], mask[e])]
            /\ epc' = [epc EXCEPT ![e] = ParComputeStep(e, nir, swir)]
    /\ UNCHANGED <<pc, log, error, apply_cloud_mask, bands, item, paths, files, nir, mask,
                   resampled, nbr, dnbr, severity, result, stats, fnVars>>

\* _compute_nbr(e_nir, e_swir), first half: swir = self._resample_to_match(swir, nir)
ParResample(e) ==
    /\ pc = "Par"
    /\ epc[e] = "Resample"
    /\ LET r == _resample_to_match(swir[e], files[e]["B12"], nir[e])
       IN  /\ resampled' = [resampled EXCEPT ![e] = r.product]
           /\ epc' = [epc EXCEPT ![e] = IF r.exc # "" THEN "Raised" ELSE "ComputeNBR"]
    /\ UNCHANGED <<pc, log, error, apply_cloud_mask, bands, item, paths, files, nir, swir,
                   mask, nbr, dnbr, severity, result, stats, fnVars>>

\* _compute_nbr(e_nir, e_swir), second half: calculate_nbr(nir.array, swir.array);
\* the log keeps the order in which the two workers get here
ParComputeNBR(e) ==
    /\ pc = "Par"
    /\ epc[e] = "ComputeNBR"
    /\ log' = Append(log, IF e = "pre" THEN "ComputeNBRPre" ELSE "ComputeNBRPost")
    /\ nbr' = [nbr EXCEPT ![e] =
                  RasterProduct(SwirUsed(e).path, calculate_nbr(nir[e].array, SwirUsed(e).array))]
    /\ epc' = [epc EXCEPT ![e] = "Joined"]
    /\ UNCHANGED <<pc, error, apply_cloud_mask, bands, item, paths, files, nir, swir, mask,
                   resampled, dnbr, severity, result, stats, fnVars>>

ParBuildMaskPre == ParBuildMask("pre")

ParBuildMaskPost == ParBuildMask("post")

ParMaskNirPre == ParMaskNir("pre")

ParMaskNirPost == ParMaskNir("post")

ParMaskSwirPre == ParMaskSwir("pre")

ParMaskSwirPost == ParMaskSwir("post")

ParResamplePre == ParResample("pre")

ParResamplePost == ParResample("post")

ParComputeNBRPre == ParComputeNBR("pre")

ParComputeNBRPost == ParComputeNBR("post")

\* both workers are done: the exception of a worker ends the run (the exceptions
\* of these steps are all IndexError), otherwise calculate_dnbr is next
ParJoin ==
    /\ pc = "Par"
    /\ \A e \in Epochs : epc[e] \in {"Joined", "Raised"}
    /\ IF \E e \in Epochs : epc[e] = "Raised"
       THEN Fail("Join", "IndexError", "", "")
       ELSE pc' = "ComputeDNBR" /\ UNCHANGED error
    /\ UNCHANGED <<log, apply_cloud_mask, bands, item, paths, files, nir, swir, mask,
                   resampled, nbr, dnbr, severity, result, stats, fnVars, epc>>

ParNext ==
    \/ ParBuildMaskPre
    \/ ParBuildMaskPost
    \/ ParMaskNirPre
    \/ ParMaskNirPost
    \/ ParMaskSwirPre
    \/ ParMaskSwirPost
    \/ ParResamplePre
    \/ ParResamplePost
    \/ ParComputeNBRPre
    \/ ParComputeNBRPost
    \/ ParJoin
    \/ ComputeDNBR

ParStart == ParInit /\ FnIdle

ParSpec == ParStart /\ [][ParNext]_vars

(***************************************************************************)
(* Properties of the functions, checked under FnSpec.  The expected        *)
(* results are written with integer arithmetic on numerators and           *)
(* denominators, independently of the operators above.                     *)
(***************************************************************************)
\* v < m/1000, v >= m/1000 for a value v that is not NaN
BelowMilli(v, m) == v.k = "ninf" \/ (v.k = "fin" /\ v.n * 1000 < m * v.d)
AtLeastMilli(v, m) == v.k = "pinf" \/ (v.k = "fin" /\ v.n * 1000 >= m * v.d)
\* v > m/1000
AboveMilli(v, m) == v.k = "pinf" \/ (v.k = "fin" /\ v.n * 1000 > m * v.d)

\* lo <= v < hi for finite lo, hi
Within(v, lo, hi) ==
    /\ v.k = "fin"
    /\ lo.n * v.d <= v.n * lo.d
    /\ v.n * hi.d < hi.n * v.d

FnPixels == Pixels(fnA.shape)

ExpectedDefaultClass(v) ==
    CASE isnan(v) -> 255
      [] BelowMilli(v, -500) -> 255
      [] BelowMilli(v, -250) -> 0
      [] BelowMilli(v, -100) -> 1
      [] BelowMilli(v, 100) -> 2
      [] BelowMilli(v, 270) -> 3
      [] BelowMilli(v, 660) -> 4
      [] BelowMilli(v, 1300) -> 5
      [] OTHER -> 255

\* C1: with the default bands classify_dnbr gives every pixel the index 0..5 of the
\* one band with lower <= v < upper (0.100 -> 3, 0.270 -> 4), and 255 to NaN and to
\* every value below -0.500 or >= 1.300; no other value occurs in the output.
C1_ClassifyDefaultBands ==
    (fnOp = "classify_dnbr" /\ fnBands = BURN_SEVERITY_CLASSES) =>
        /\ fnOut.shape = fnA.shape
        /\ \A p \in FnPixels :
            /\ fnOut.px[p] = ExpectedDefaultClass(fnA.px[p])
            /\ fnOut.px[p] \in (0 .. 5) \cup {255}
            /\ fnA.px[p] = Milli(100) => fnOut.px[p] = 3
            /\ fnA.px[p] = Milli(270) => fnOut.px[p] = 4
            /\ fnOut.px[p] = 255 <=>
                 (isnan(fnA.px[p]) \/ BelowMilli(fnA.px[p], -500) \/ AtLeastMilli(fnA.px[p], 1300))

C1_Witness ==
    /\ fnOp = "classify_dnbr"
    /\ fnBands = BURN_SEVERITY_CLASSES
    /\ fnA.shape = <<1, 3>>
    /\ fnA.px[<<1, 1>>] = Milli(269) /\ fnOut.px[<<1, 1>>] = 3
    /\ fnA.px[<<1, 2>>] = Milli(270) /\ fnOut.px[<<1, 2>>] = 4
    /\ fnA.px[<<1, 3>>] = Milli(300)

\* the 1-based positions of the bands of fnBands that contain v
Matching(v) ==
    {i \in 1 .. Len(fnBands) : Within(v, fnBands[i].dnbr_min, fnBands[i].dnbr_max)}

SetMax(S) == CHOOSE m \in S : \A x \in S : x <= m
SetMin(S) == CHOOSE m \in S : \A x \in S : m <= x

SumIsZero(a, b) == a.k = "fin" /\ b.k = "fin" /\ a.n * b.d + b.n * a.d = 0

\* (nir - swir) / (nir + swir) for finite nir, swir with nir + swir # 0
ExactIndex(a, b) == R(a.n * b.d - b.n * a.d, a.n * b.d + b.n * a.d)

NbrCase == fnOp = "calculate_nbr" /\ fnA.shape = fnB.shape

\* C3 (as stated): for equal-shape nir and swir calculate_nbr never raises, never
\* returns an infinite value, is NaN at exactly the pixels where nir + swir == 0 or
\* an input is NaN, and equals (nir - swir) / (nir + swir) elsewhere.
C3_NanExactlyAtZeroSumOrNan ==
    NbrCase =>
        /\ fnErr = ""
        /\ fnOut.shape = fnA.shape
        /\ \A p \in FnPixels :
            /\ ~isinf(fnOut.px[p])
            /\ isnan(fnOut.px[p]) <=>
                 (SumIsZero(fnA.px[p], fnB.px[p]) \/ isnan(fnA.px[p]) \/ isnan(fnB.px[p]))
            /\ ~isnan(fnOut.px[p]) => fnOut.px[p] = ExactIndex(fnA.px[p], fnB.px[p])

\* C3 (amended): ... is NaN at exactly the pixels where nir + swir == 0 or an input
\* is NaN or infinite, and equals (nir - swir) / (nir + swir) elsewhere.
C3_NanExactlyAtZeroSumOrNonFinite ==
    NbrCase =>
        /\ fnErr = ""
        /\ fnOut.shape = fnA.shape
        /\ \A p \in FnPixels :
            /\ ~isinf(fnOut.px[p])
            /\ isnan(fnOut.px[p]) <=>
                 \/ SumIsZero(fnA.px[p], fnB.px[p])
                 \/ ~isfinite(fnA.px[p])
                 \/ ~isfinite(fnB.px[p])
            /\ ~isnan(fnOut.px[p]) => fnOut.px[p] = ExactIndex(fnA.px[p], fnB.px[p])

C3_Witness ==
    /\ NbrCase
    /\ fnA.shape = <<1, 3>>
    /\ fnA.px[<<1, 1>>] = Milli(800) /\ fnB.px[<<1, 1>>] = Milli(-800)
    /\ isnan(fnOut.px[<<1, 1>>])
    /\ fnA.px[<<1, 2>>] = Milli(1000) /\ fnB.px[<<1, 2>>] = Milli(-501)
    /\ fnOut.px[<<1, 2>>] = R(1501, 499)

NormCase == fnOp = "normalize_for_overlay"

\* a finite v clipped to [fnMin, fnMax] and rescaled to [0, 1]
Rescaled(v) ==
    IF v.n * fnMin.d <= fnMin.n * v.d THEN R(0, 1)
    ELSE IF v.n * fnMax.d >= fnMax.n * v.d THEN R(1, 1)
    ELSE FDiv(FSub(v, fnMin), FSub(fnMax, fnMin))

InUnitInterval(v) == v.k = "fin" /\ 0 <= v.n /\ v.n <= v.d

\* C5 (as stated): every output pixel of normalize_for_overlay lies in [0, 1]: a
\* finite value is clipped to [min, max] and linearly rescaled, and NaN, +Inf and
\* -Inf each become 0.0.
C5_NonFiniteBecomesZero ==
    NormCase =>
        \A p \in FnPixels :
            /\ InUnitInterval(fnOut.px[p])
            /\ isfinite(fnA.px[p]) => fnOut.px[p] = Rescaled(fnA.px[p])
            /\ ~isfinite(fnA.px[p]) => fnOut.px[p] = R(0, 1)

\* C5 (amended): ... NaN and -Inf each become 0.0 and +Inf becomes 1.0.
C5_NormalizeUnitInterval ==
    NormCase =>
        /\ fnOut.shape = fnA.shape
        /\ \A p \in FnPixels :
            /\ InUnitInterval(fnOut.px[p])
            /\ isfinite(fnA.px[p]) => fnOut.px[p] = Rescaled(fnA.px[p])
            /\ fnA.px[p].k \in {"nan", "ninf"} => fnOut.px[p] = R(0, 1)
            /\ fnA.px[p].k = "pinf" => fnOut.px[p] = R(1, 1)

C5_Witness ==
    /\ NormCase
    /\ fnMin = Milli(-500) /\ fnMax = Milli(1300)
    /\ fnA.shape = <<1, 3>>
    /\ fnA.px[<<1, 1>>] = Milli(2000) /\ fnOut.px[<<1, 1>>] = R(1, 1)
    /\ fnA.px[<<1, 2>>] = NaN /\ fnOut.px[<<1, 2>>] = R(0, 1)
    /\ fnA.px[<<1, 3>>] = PInf /\ fnOut.px[<<1, 3>>] = R(1, 1)

OverlayCase == fnOp = "raster_overlay"

\* C6 (as stated): in the overlay a pixel's alpha is 180 exactly when its original
\* raster value is strictly positive, and 0 when it is zero, negative or NaN.
C6_AlphaIffOriginalPositive ==
    OverlayCase =>
        \A p \in FnPixels :
            /\ fnOut.px[p].alpha \in {0, 180}
            /\ fnOut.px[p].alpha = 180 <=> AboveMilli(fnA.px[p], 0)

\* C6 (amended): in the overlay a pixel's alpha is 180 exactly when its original
\* raster value is greater than -1 (the value normalized to 0), and 0 when it is
\* -1 or less, or NaN.
C6_AlphaIffAboveMinusOne ==
    OverlayCase =>
        /\ fnOut.shape = fnA.shape
        /\ \A p \in FnPixels :
            /\ fnOut.px[p].alpha \in {0, 180}
            /\ fnOut.px[p].alpha = 180 <=> AboveMilli(fnA.px[p], -1000)

C6_Witness ==
    /\ OverlayCase
    /\ fnA.shape = <<1, 3>>
    /\ fnA.px[<<1, 1>>] = Milli(-1000) /\ fnOut.px[<<1, 1>>].alpha = 0
    /\ fnA.px[<<1, 2>>] = Milli(-800) /\ fnOut.px[<<1, 2>>].alpha = 180

(***************************************************************************)
(* Properties of a pipeline run, checked under Spec.                       *)
(***************************************************************************)
InLog(stage) == \E i \in 1 .. Len(log) : log[i] = stage

Computed(e) == nbr[e] # NoRaster

\* C4: calculate_dnbr requires operands of identical shape: whenever the pre and
\* post NBR rasters differ in shape (also inside the pipeline) it fails with a
\* shape-mismatch error rather than returning a raster.
C4_ShapeMismatchFails ==
    /\ (fnOp = "calculate_dnbr" /\ fnA.shape # fnB.shape) => (fnErr # "" /\ fnOut = NoArray)
    /\ (InLog("ComputeDNBR") /\ nbr["pre"].array.shape # nbr["post"].array.shape) =>
          (pc = "Failed" /\ error.stage = "ComputeDNBR" /\ dnbr = NoRaster)

FetchStages == <<"Init", "SearchPre", "SearchPost", "DownloadPre", "DownloadPost">>

NothingComputed ==
    /\ \A e \in Epochs : nir[e] = NoRaster /\ swir[e] = NoRaster /\ nbr[e] = NoRaster
    /\ dnbr = NoRaster
    /\ severity = NoRaster
    /\ stats = NoStats
    /\ ~result

SearchStage(e) == IF e = "pre" THEN "SearchPre" ELSE "SearchPost"
DownloadStage(e) == IF e = "pre" THEN "DownloadPre" ELSE "DownloadPost"

\* C7: a search that returns no item or raises, and a download that raises, end the
\* run with the error: the failing call ran once, no later stage ran, no result.
C7_FetchFailureIsFatal ==
    /\ \A e \in Epochs :
        /\ (InLog(SearchStage(e)) /\ pc # "Failed") => item[e] # NoItem
        /\ (InLog(DownloadStage(e)) /\ pc # "Failed") =>
              paths[e] = {bands[i] : i \in 1 .. Len(bands)}
    /\ \A k \in 2 .. Len(FetchStages) :
        (pc = "Failed" /\ error.stage = FetchStages[k]) =>
            /\ log = SubSeq(FetchStages, 1, k)
            /\ error.exc \in {"RuntimeError", "HTTPError", "KeyError"}
            /\ NothingComputed
    /\ pc = "Failed" => ~ENABLED PipeNext

C7_Witness ==
    /\ pc = "Failed"
    /\ error.stage = "SearchPost"
    /\ error.exc = "RuntimeError"
    /\ item["pre"] # NoItem
    /\ log = <<"Init", "SearchPre", "SearchPost">>

\* the stages in the order of the state list of the design, the two resampling
\* stages being its one ResampleOptional state
DesignRank(stage) ==
    CASE stage = "Init" -> 0
      [] stage = "SearchPre" -> 1
      [] stage = "SearchPost" -> 2
      [] stage = "DownloadPre" -> 3
      [] stage = "DownloadPost" -> 4
      [] stage = "LoadBands" -> 5
      [] stage = "Mask" -> 6
      [] stage \in {"ResamplePre", "ResamplePost"} -> 7
      [] stage = "ComputeNBRPre" -> 8
      [] stage = "ComputeNBRPost" -> 9
      [] stage = "ComputeDNBR" -> 10
      [] stage = "Classify" -> 11
      [] stage = "Statistics" -> 12
      [] stage = "Done" -> 13

\* C8 (as stated): a successful run passes through Init, SearchPre, SearchPost,
\* DownloadPre, DownloadPost, LoadBands, (MaskOptional), ResampleOptional,
\* ComputeNBR(pre), ComputeNBR(post), ComputeDNBR, Classify, Statistics, Done in
\* this order: all resampling precedes the first NBR computation, and Done is
\* reached only after Statistics.
C8_DesignOrder ==
    /\ \A i, j \in 1 .. Len(log) : i < j => DesignRank(log[i]) <= DesignRank(log[j])
    /\ InLog("Done") => InLog("Statistics")

\* the stages in the order download_and_prepare runs them
CodeOrder ==
    <<"Init", "SearchPre", "SearchPost", "DownloadPre", "DownloadPost", "LoadBands", "Mask",
      "ResamplePre", "ComputeNBRPre", "ResamplePost", "ComputeNBRPost", "ComputeDNBR",
      "Classify", "Done", "Statistics">>

CodeRank(stage) == CHOOSE k \in 1 .. Len(CodeOrder) : CodeOrder[k] = stage

Optional == {"Mask", "ResamplePre", "ResamplePost", "Statistics"}

\* C8 (amended): a successful run passes through Init, SearchPre, SearchPost,
\* DownloadPre, DownloadPost, LoadBands, (Mask), (Resample pre), ComputeNBR(pre),
\* (Resample post), ComputeNBR(post), ComputeDNBR, Classify, Done in this order:
\* both searches precede any download, each epoch's resampling precedes that
\* epoch's NBR computation, and Statistics runs only after Done, on the result.
C8_CodeOrder ==
    /\ \A i \in 1 .. Len(log) : log[i] \in {CodeOrder[k] : k \in 1 .. Len(CodeOrder)}
    /\ \A i, j \in 1 .. Len(log) : i < j => CodeRank(log[i]) < CodeRank(log[j])
    /\ \A i \in 1 .. Len(log) :
        \A k \in 1 .. CodeRank(log[i]) - 1 :
            CodeOrder[k] \notin Optional => \E j \in 1 .. i - 1 : log[j] = CodeOrder[k]
    /\ pc = "Done" => InLog("Done") /\ InLog("Classify")
    /\ InLog("Done") <=> result

C8_Witness ==
    /\ pc = "Done"
    /\ stats # NoStats
    /\ log = <<"Init", "SearchPre", "SearchPost", "DownloadPre", "DownloadPost", "LoadBands",
               "Mask", "ComputeNBRPre", "ComputeNBRPost", "ComputeDNBR", "Classify", "Done",
               "Statistics">>

\* the pixels of epoch e that its cloud mask excludes
Masked(e) == IF mask[e] = NoArray THEN {} ELSE {p \in Pixels(mask[e].shape) : mask[e].px[p]}

\* C9: when cloud masking is applied, the mask of each epoch is applied to both the
\* NIR and the SWIR band of the epoch before NBR is computed, for every combination
\* of band shapes, so that every pixel excluded by the pre or post mask is NaN in
\* that epoch's NBR, NaN in dNBR and 255 in the severity raster.
C9_MaskedPixelsPropagate ==
    InLog("Mask") =>
        /\ error.stage # "Mask"
        /\ \A e \in Epochs :
            \A p \in Masked(e) :
                /\ isnan(nir[e].array.px[p]) /\ isnan(swir[e].array.px[p])
                /\ Computed(e) => isnan(nbr[e].array.px[p])
                /\ dnbr # NoRaster => isnan(dnbr.array.px[p])
                /\ severity # NoRaster => severity.array.px[p] = 255

\* the band arrays of epoch e are as _load_raster returned them
AsLoaded(e) ==
    /\ nir[e] = _load_raster(<<e, "B08">>, files[e]["B08"], TRUE)
    /\ swir[e] = _load_raster(<<e, "B12">>, files[e]["B12"], TRUE)

ResampleStage(e) == IF e = "pre" THEN "ResamplePre" ELSE "ResamplePost"
ComputeNBRStage(e) == IF e = "pre" THEN "ComputeNBRPre" ELSE "ComputeNBRPost"

\* the masking step is entered only if masking is enabled and SCL was downloaded for
\* both epochs, the resampling step only if the NIR and SWIR shapes differ; a
\* skipped step leaves the band arrays unchanged and the run goes on
ConditionalStages ==
    /\ InLog("Mask") =>
          (apply_cloud_mask /\ "SCL" \in paths["pre"] /\ "SCL" \in paths["post"])
    /\ (InLog("LoadBands") /\ ~InLog("Mask")) =>
          /\ \A e \in Epochs : AsLoaded(e) /\ mask[e] = NoArray /\ files[e]["SCL"] = NoFile
          /\ pc = "Failed" => error.stage \in {"ResamplePre", "ResamplePost", "ComputeDNBR"}
    /\ \A e \in Epochs :
        /\ InLog(ResampleStage(e)) => nir[e].array.shape # swir[e].array.shape
        /\ (InLog(ComputeNBRStage(e)) /\ ~InLog(ResampleStage(e))) =>
              /\ resampled[e] = NoRaster
              /\ nir[e].array.shape = swir[e].array.shape
              /\ nbr[e].array.shape = nir[e].array.shape

\* the run failed because the SCL asset is missing
FailedForMissingScl == pc = "Failed" /\ error.exc = "KeyError" /\ error.band = "SCL"

\* C10 (as stated): ... a missing quality band makes masking be skipped, it does
\* not fail the run.
C10_MissingQualityBandNeverFails ==
    /\ ConditionalStages
    /\ ~FailedForMissingScl

\* C10 (amended): ... a quality band that was not requested (SCL not in bands) makes
\* masking be skipped and does not fail the run; a requested quality band that is
\* missing from an item's assets fails the run in download_bands.
C10_UnrequestedQualityBandSkipsMask ==
    /\ ConditionalStages
    /\ (\A i \in 1 .. Len(bands) : bands[i] # "SCL") =>
          /\ ~InLog("Mask")
          /\ ~FailedForMissingScl
          /\ pc = "Failed" => error.stage \in {"SearchPre", "SearchPost", "DownloadPre",
                                               "DownloadPost", "ResamplePre", "ResamplePost",
                                               "ComputeDNBR"}
    /\ \A e \in Epochs :
        (InLog(DownloadStage(e)) /\ "SCL" \notin item[e].assets
            /\ \E i \in 1 .. Len(bands) : bands[i] = "SCL") =>
                (pc = "Failed" /\ error.stage = DownloadStage(e))

C10_Witness ==
    /\ pc = "Done"
    /\ apply_cloud_mask
    /\ bands = <<"B08", "B12">>
    /\ "SCL" \notin item["pre"].assets
    /\ ~InLog("Mask")
    /\ \A e \in Epochs : ~InLog(ResampleStage(e)) /\ AsLoaded(e) /\ Computed(e)

(***************************************************************************)
(* Properties of download_bands, checked under AccessSpec.                 *)
(***************************************************************************)
\* the item has an asset for the band, under its own name or with a "B" in front
HasAsset(band) == band \in item["pre"].assets \/ ("B" \o band) \in item["pre"].assets

\* the positions in bands of the bands without an asset, and of the bands whose
\* asset does not answer
AbsentAt == {i \in 1 .. Len(bands) : ~HasAsset(bands[i])}
DeadAt ==
    {i \in 1 .. Len(bands) :
        bands[i] \in item["pre"].dead \/ ("B" \o bands[i]) \in item["pre"].dead}

DownloadCalled == InLog("download_bands")

StatisticsCase == fnOp = "compute_statistics"

\* the pixels of fnA that are not NaN
ValidPixels == {p \in FnPixels : fnA.px[p].k # "nan"}

\* n pixels of 10 m x 10 m in square kilometres
Km2(n) == R(n, 10000)

\* C12: compute_statistics counts a valid pixel as burned exactly when its dNBR is
\* >= 0.10 (the inclusive lower bound of Low Severity) and as high severity exactly
\* when the classifier assigns it the High Severity class (index 5), so that the
\* statistics agree with the class raster of the same dNBR.
C12_StatisticsAgreeWithClasses ==
    StatisticsCase =>
        /\ fnOut.burned_area_km2 =
              Km2(Cardinality({p \in ValidPixels : AtLeastMilli(fnA.px[p], 100)}))
        /\ fnOut.high_severity_km2 =
              Km2(Cardinality({p \in ValidPixels : classify_dnbr(fnA).px[p] = 5}))

(***************************************************************************)
(* The end-to-end scenario, checked under Spec.                            *)
(***************************************************************************)
\* the files of epoch e hold the raw numbers b08 (NIR) and b12 (SWIR) at every pixel
RawAre(e, b08, b12) ==
    /\ InLog("LoadBands")
    /\ \A p \in Pixels(files[e]["B08"].shape) : files[e]["B08"].raw[p] = b08
    /\ \A p \in Pixels(files[e]["B12"].shape) : files[e]["B12"].raw[p] = b12

\* the pixels of epoch e that are neither masked nor resampled
PlainPixels(e) ==
    IF NeedsResample(e) THEN {} ELSE Pixels(nir[e].array.shape) \ Masked(e)

\* C13: a pixel with pre NIR 8000 and SWIR 2000 (scaled by 1/10000 to 0.8 and 0.2)
\* has pre NBR 0.6; with post NIR 3000 and SWIR 6000 it has post NBR -1/3; its
\* dNBR is 0.6 - (-1/3) = 14/15 = 0.933, and classify_dnbr assigns it High
\* Severity (index 5).
C13_EndToEndScenario ==
    /\ RawAre("pre", 8000, 2000) =>
          \A p \in PlainPixels("pre") :
              /\ nir["pre"].array.px[p] = R(8, 10)
              /\ swir["pre"].array.px[p] = R(2, 10)
              /\ Computed("pre") => nbr["pre"].array.px[p] = R(6, 10)
    /\ RawAre("post", 3000, 6000) =>
          \A p \in PlainPixels("post") :
              /\ nir["post"].array.px[p] = R(3, 10)
              /\ swir["post"].array.px[p] = R(6, 10)
              /\ Computed("post") => nbr["post"].array.px[p] = R(-1, 3)
    /\ (RawAre("pre", 8000, 2000) /\ RawAre("post", 3000, 6000)
           /\ nir["pre"].array.shape = nir["post"].array.shape) =>
          \A p \in PlainPixels("pre") \cap PlainPixels("post") :
              /\ dnbr # NoRaster =>
                    /\ dnbr.array.px[p] = R(14, 15)
                    /\ Within(dnbr.array.px[p], Milli(933), Milli(934))
              /\ severity # NoRaster =>
                    /\ severity.array.px[p] = 5
                    /\ BURN_SEVERITY_CLASSES[severity.array.px[p] + 1].name = "High Severity"

C13_Witness ==
    /\ pc = "Done"
    /\ RawAre("pre", 8000, 2000)
    /\ RawAre("post", 3000, 6000)
    /\ dnbr.array.shape = <<1, 1>>
    /\ PlainPixels("pre") \cap PlainPixels("post") = {<<1, 1>>}
    /\ nbr["pre"].array.px[<<1, 1>>] = R(3, 5)
    /\ nbr["post"].array.px[<<1, 1>>] = R(-1, 3)
    /\ dnbr.array.px[<<1, 1>>] = R(14, 15)
    /\ severity.array.px[<<1, 1>>] = 5

(***************************************************************************)
(* Properties of the resampling step, checked under Spec.                  *)
(***************************************************************************)
\* the run ended in the resampling step of epoch e
ResampleRaised(e) == pc = "Failed" /\ error.stage = ResampleStage(e)

\* C14: _resample_to_match(source, target) always returns a raster whose 2-D array
\* shape equals target.array.shape, so that after the resample step in _compute_nbr
\* the NIR and SWIR arrays passed to calculate_nbr have identical shape.
C14_ResampleReturnsTargetShape ==
    \A e \in Epochs :
        InLog(ResampleStage(e)) =>
            /\ ~ResampleRaised(e)
            /\ Len(resampled[e].array.shape) = 2
            /\ resampled[e].array.shape = nir[e].array.shape
            /\ InLog(ComputeNBRStage(e)) => SwirUsed(e).array.shape = nir[e].array.shape

(***************************************************************************)
(* Properties of the masking step, checked under Spec.                     *)
(***************************************************************************)
\* the masking step has written both masks into all four band arrays
MaskApplied == InLog("Mask") /\ error.stage # "Mask"

\* C15: applying the same exclusion mask to a band array a second time yields
\* exactly the array that applying it once gave (same NaN pattern, same remaining
\* values), and the pixels outside the mask keep the values they were loaded with.
C15_MaskingIdempotent ==
    MaskApplied =>
        \A e \in Epochs :
            /\ set_nan(nir[e], mask[e]) = nir[e]
            /\ set_nan(swir[e], mask[e]) = swir[e]
            /\ \A p \in Pixels(mask[e].shape) :
                 IF p \in Masked(e)
                 THEN isnan(nir[e].array.px[p]) /\ isnan(swir[e].array.px[p])
                 ELSE /\ nir[e].array.px[p] = R(files[e]["B08"].raw[p], 10000)
                      /\ swir[e].array.px[p] = R(files[e]["B12"].raw[p], 10000)

C15_Witness ==
    /\ MaskApplied
    /\ nir["pre"].array.shape = <<1, 2>>
    /\ Masked("pre") = {<<1, 1>>}
    /\ isnan(nir["pre"].array.px[<<1, 1>>])
    /\ isnan(swir["pre"].array.px[<<1, 1>>])
    /\ nir["pre"].array.px[<<1, 2>>] = R(8, 10)
    /\ swir["pre"].array.px[<<1, 2>>] = R(2, 10)
    /\ set_nan(nir["pre"], mask["pre"]) = nir["pre"]

(***************************************************************************)
(* Properties of sequences of calls, checked under OrderSpec.              *)
(***************************************************************************)
\* C16: calculate_nbr, calculate_dnbr, classify_dnbr, normalize_for_overlay and
\* colorize leave their input arrays as they were before the first call, so that
\* rendering the overlay of an array and classifying the same array give, in
\* either order, what each gives on the array as it was at the start.
C16_InputsUnchanged ==
    /\ fnA = fnHist.a0
    /\ fnB = fnHist.b0
    /\ (fnOp = "classify_dnbr" /\ fnBands = BURN_SEVERITY_CLASSES) =>
          fnOut = classify_dnbr(fnHist.a0)
    /\ fnOp = "raster_overlay" => fnOut = raster_overlay(fnHist.a0, DEFAULT_DNBR_COLORMAP)
    /\ (fnOp = "calculate_dnbr" /\ fnErr = "") => fnOut = calculate_dnbr(fnHist.a0, fnHist.b0)
    /\ (fnOp = "calculate_nbr" /\ fnErr = "") => fnOut = calculate_nbr(fnHist.a0, fnHist.b0)

\* the overlay was rendered first, then a value outside [-1, 1] classified
C16_Witness ==
    /\ fnHist.prev = "raster_overlay"
    /\ fnOp = "classify_dnbr"
    /\ fnBands = BURN_SEVERITY_CLASSES
    /\ fnA = fnHist.a0
    /\ fnA.shape = <<1, 2>>
    /\ fnA.px[<<1, 1>>] = Milli(1300) /\ fnOut.px[<<1, 1>>] = 255
    /\ fnA.px[<<1, 2>>] = Milli(2000) /\ fnOut.px[<<1, 2>>] = 255

\* ---------------------------------------------------------------------------
\* colorize: the bracketing stops and the interpolated colour
\* ---------------------------------------------------------------------------

ColorizeCase == fnOp = "colorize" /\ fnErr = ""

InUnitRange(v) == isfinite(v) /\ FLe(R(0, 1), v) /\ FLe(v, R(1, 1))

\* v lies between the first and the last stop of the ramp
Spanned(colormap, v) == FLe(colormap[1][1], v) /\ FLe(v, colormap[Len(colormap)][1])

IndexInBounds(colormap, c) == 1 <= c.index /\ c.index <= Len(colormap) - 1

\* stops[i - 1] <= v <= stops[i]
Bracketed(colormap, v, c) ==
    FLe(colormap[c.index][1], v) /\ FLe(v, colormap[c.index + 1][1])

\* every channel lies between the channels of the two bracketing colours
BetweenStopColors(colormap, c) ==
    \A ch \in 1 .. 3 : \A byte \in c.rgb[ch] :
        LET low == colormap[c.index][2][ch]
            high == colormap[c.index + 1][2][ch]
        IN  (low <= byte /\ byte <= high) \/ (high <= byte /\ byte <= low)

ChannelsAreBytes(c) == \A ch \in 1 .. 3 : c.rgb[ch] \subseteq 0 .. 255

\* C17 as stated: for every ramp of at least two strictly increasing stops and
\* every v in [0, 1], colorize selects an index i with 1 <= i <= len - 1 and
\* stops[i-1] <= v <= stops[i], and every RGB channel lies between the channels
\* of the two bracketing colours and within [0, 255].
C17_BracketedForEveryRamp ==
    ColorizeCase =>
        \A p \in Pixels(fnA.shape) :
            InUnitRange(fnA.px[p]) =>
                /\ IndexInBounds(fnRamp, fnOut.px[p])
                /\ Bracketed(fnRamp, fnA.px[p], fnOut.px[p])
                /\ BetweenStopColors(fnRamp, fnOut.px[p])
                /\ ChannelsAreBytes(fnOut.px[p])

\* C17, amended: for every such ramp and every v in [0, 1] the index is within
\* 1 .. len - 1 and every RGB channel is within [0, 255]; when v also lies
\* between the first and the last stop of the ramp, stops[i-1] <= v <= stops[i]
\* and every channel lies between the channels of the two bracketing colours.
C17_BracketedWithinRamp ==
    ColorizeCase =>
        \A p \in Pixels(fnA.shape) :
            InUnitRange(fnA.px[p]) =>
                /\ IndexInBounds(fnRamp, fnOut.px[p])
                /\ ChannelsAreBytes(fnOut.px[p])
                /\ Spanned(fnRamp, fnA.px[p]) =>
                        /\ Bracketed(fnRamp, fnA.px[p], fnOut.px[p])
                        /\ BetweenStopColors(fnRamp, fnOut.px[p])

\* a value strictly inside an interval of a ramp was coloured strictly between
\* the two stop colours, next to a value of [0, 1] that the ramp does not span
C17_Witness ==
    /\ ColorizeCase
    /\ \E p \in Pixels(fnA.shape) :
            /\ InUnitRange(fnA.px[p])
            /\ Spanned(fnRamp, fnA.px[p])
            /\ \E ch \in 1 .. 3 : \E byte \in fnOut.px[p].rgb[ch] :
                    /\ byte # fnRamp[fnOut.px[p].index][2][ch]
                    /\ byte # fnRamp[fnOut.px[p].index + 1][2][ch]
    /\ \E p \in Pixels(fnA.shape) :
            InUnitRange(fnA.px[p]) /\ ~Spanned(fnRamp, fnA.px[p])

(***************************************************************************)
(* The two epochs side by side, checked under ParSpec                      *)
(***************************************************************************)
\* what the computations of epoch e give when they run alone from the files of
\* the epoch, in the order of download_and_prepare
Alone(e) ==
    LET n0 == _load_raster(<<e, "B08">>, files[e]["B08"], TRUE)
        s0 == _load_raster(<<e, "B12">>, files[e]["B12"], TRUE)
        built == _build_cloud_mask(_load_raster(<<e, "SCL">>, files[e]["SCL"], FALSE),
                                   files[e]["SCL"], n0)
        noMask == MaskCondition /\ built.exc # ""
        masked == MaskCondition /\ ~noMask
        n1 == IF masked THEN set_nan(n0, built.mask) ELSE n0
        swirRaises == masked /\ mask_raises(s0, built.mask)
        s1 == IF masked /\ ~swirRaises THEN set_nan(s0, built.mask) ELSE s0
        needs == n1.array.shape # s1.array.shape
        r == _resample_to_match(s1, files[e]["B12"], n1)
        resampleRaises == ~noMask /\ ~swirRaises /\ needs /\ r.exc # ""
        s2 == IF needs THEN r.product ELSE s1
        raised == noMask \/ swirRaises \/ resampleRaises
    IN  [raised |-> raised, nir |-> n1, swir |-> s1,
         nbr |-> IF raised THEN NoRaster
                 ELSE RasterProduct(s2.path, calculate_nbr(n1.array, s2.array))]

\* the outcome of the sequential order: pre, then post, then calculate_dnbr
Sequential ==
    IF \E e \in Epochs : Alone(e).raised
    THEN [failed |-> TRUE, dnbr |-> NoRaster]
    ELSE IF raises_ValueError(Alone("pre").nbr.array, Alone("post").nbr.array)
    THEN [failed |-> TRUE, dnbr |-> NoRaster]
    ELSE [failed |-> FALSE,
          dnbr |-> RasterProduct(<<"dnbr.tif">>,
                       calculate_dnbr(Alone("pre").nbr.array, Alone("post").nbr.array))]

\* C18: the computations of the two epochs work on disjoint arrays (whatever the
\* other worker has done, a worker that is done holds the arrays its epoch gives
\* alone), and every interleaving of their steps ends with the dNBR raster of the
\* sequential order, or fails where the sequential order fails.
C18_InterleavingsAgree ==
    /\ \A e \in Epochs :
        /\ epc[e] = "Raised" => Alone(e).raised
        /\ epc[e] = "Joined" =>
                /\ ~Alone(e).raised
                /\ nir[e] = Alone(e).nir
                /\ swir[e] = Alone(e).swir
                /\ nbr[e] = Alone(e).nbr
    /\ pc = "Classify" => ~Sequential.failed /\ dnbr = Sequential.dnbr
    /\ pc = "Failed" => Sequential.failed /\ dnbr = NoRaster

\* the post epoch computed its NBR before the pre epoch did, the two cloud masks
\* differ, and the dNBR raster has a masked and an unmasked pixel
C18_Witness ==
    /\ pc = "Classify"
    /\ log = <<"Init", "ComputeNBRPost", "ComputeNBRPre", "ComputeDNBR">>
    /\ MaskCondition
    /\ mask["pre"] # mask["post"]
    /\ \E p, q \in Pixels(dnbr.array.shape) :
            isnan(dnbr.array.px[p]) /\ isfinite(dnbr.array.px[q])

(***************************************************************************)
(* The unit of the operands of calculate_nbr, checked under Spec           *)
(***************************************************************************)
\* _compute_nbr has been entered for epoch e
ComputeNbrEntered(e) == InLog(ResampleStage(e)) \/ InLog(ComputeNBRStage(e))

\* every value of the array is the number stored in the file divided by 10000,
\* or the NaN of the cloud mask (every pixel of a band file holds the same number)
InReflectance(product, file) ==
    /\ product # NoRaster
    /\ \A p \in DOMAIN product.array.px :
            \/ isnan(product.array.px[p])
            \/ product.array.px[p] = R(file.raw[<<1, 1>>], 10000)

IsZero(v) == v.k = "fin" /\ v.n = 0

\* 0 <= v <= 100
IsPercentage(v) == v.k = "fin" /\ v.d > 0 /\ 0 <= v.n /\ v.n <= 100 * v.d

\* a <= b for finite a, b with positive denominators
AtMost(a, b) == a.k = "fin" /\ b.k = "fin" /\ a.d > 0 /\ b.d > 0 /\ a.n * b.d <= b.n * a.d

\* C20: for every dNBR raster compute_statistics returns
\* 0 <= high_severity_km2 <= burned_area_km2 <= total_area_km2 and both percentages
\* within [0, 100]; for a raster without a valid (non-NaN) pixel it returns 0.0 for
\* all five values (no division by the zero pixel count takes place).
C20_StatisticsBounded ==
    (StatisticsCase /\ fnErr = "") =>
        /\ AtMost(R(0, 1), fnOut.high_severity_km2)
        /\ AtMost(fnOut.high_severity_km2, fnOut.burned_area_km2)
        /\ AtMost(fnOut.burned_area_km2, fnOut.total_area_km2)
        /\ IsPercentage(fnOut.burned_percentage)
        /\ IsPercentage(fnOut.high_severity_percentage)
        /\ ValidPixels = {} =>
                /\ IsZero(fnOut.total_area_km2)
                /\ IsZero(fnOut.burned_area_km2)
                /\ IsZero(fnOut.burned_percentage)
                /\ IsZero(fnOut.high_severity_km2)
                /\ IsZero(fnOut.high_severity_percentage)

\* compute_statistics returned for a raster whose pixels are all NaN
C20_Witness ==
    /\ StatisticsCase
    /\ fnErr = ""
    /\ FnPixels # {}
    /\ ValidPixels = {}
    /\ IsZero(fnOut.total_area_km2)
    /\ IsZero(fnOut.high_severity_percentage)

====
